---- MODULE Spec2Model ----
(***************************************************************************)
(* Model of server.js: an Express REST relay holding two in-memory tables  *)
(* (deviceData, commands) keyed by device id, with four route handlers.    *)
(*                                                                         *)
(* Both tables are plain JavaScript object literals, so a property read    *)
(* table[id] follows the prototype chain and a property write with the key *)
(* "__proto__" replaces the table's prototype instead of storing an entry. *)
(* Request bodies are JSON texts parsed by express.json() and responses    *)
(* are serialised by res.json()/res.send(); both conversions are modelled. *)
(* Node runs each handler to completion, so a handler is one atomic step;  *)
(* several requests may be in flight (accepted, not yet handled) at once.  *)
(***************************************************************************)
EXTENDS Integers, Sequences, FiniteSets, TLC

\* ---------------------------------------------------------------- bounds
\* Number of requests that arrive in one behaviour of telemetry traffic.
MaxReports == 3
\* Number of requests that arrive in one behaviour of command traffic.
MaxPolls == 4
\* Largest value the wall clock (Date.now()) takes.
MaxTime == 2

\* Connections on which a request can be in flight at the same time.
Conns == {"c1", "c2"}

\* ------------------------------------------------------------ JS values
\* A JavaScript primitive: t is the kind, n the numeric payload, s the string
\* payload.  "infinity" is the number value Infinity; "overflow" only occurs
\* in JSON text: a number literal too large for a double, such as 1e999.
Undefined == [t |-> "undefined", n |-> 0, s |-> ""]
Null == [t |-> "null", n |-> 0, s |-> ""]
Infinity == [t |-> "infinity", n |-> 0, s |-> ""]
Overflow == [t |-> "overflow", n |-> 0, s |-> ""]
Num(k) == [t |-> "number", n |-> k, s |-> ""]
Str(x) == [t |-> "string", n |-> 0, s |-> x]
Bool(b) == [t |-> "boolean", n |-> IF b THEN 1 ELSE 0, s |-> ""]

\* typeof x
TypeOf(x) ==
    CASE x.t = "infinity" -> "number"
      [] x.t = "null" -> "object"
      [] OTHER -> x.t

\* ToBoolean(x) for a primitive
Truthy(x) ==
    CASE x.t = "undefined" -> FALSE
      [] x.t = "null" -> FALSE
      [] x.t = "number" -> x.n # 0
      [] x.t = "string" -> x.s # ""
      [] x.t = "boolean" -> x.n = 1
      [] OTHER -> TRUE

\* The property names that the objects of this program carry.  An object is
\* a record over these names; Undefined stands for "no such own property".
Fields == {"message", "latitude", "longitude", "rssi", "timestamp", "buzzer"}
EmptyObject == [f \in Fields |-> Undefined]

\* A JavaScript value as a handler sees it: an object, a primitive or
\* undefined.  The same shape describes a response body; "undefined" is
\* then an empty body.
ObjVal(o) == [kind |-> "object", obj |-> o, sc |-> Undefined]
ScalarVal(x) == [kind |-> "scalar", obj |-> EmptyObject, sc |-> x]
UndefinedVal == [kind |-> "undefined", obj |-> EmptyObject, sc |-> Undefined]

\* ToBoolean(v)
TruthyVal(v) ==
    CASE v.kind = "object" -> TRUE
      [] v.kind = "scalar" -> Truthy(v.sc)
      [] OTHER -> FALSE

\* v.name: a property read on any value
Prop(v, name) == IF v.kind = "object" THEN v.obj[name] ELSE Undefined

\* ------------------------------------------------------------- JSON
\* JSON.parse of one value: a number literal beyond the double range
\* becomes Infinity; everything else is read as written.
ParseValue(x) == IF x.t = "overflow" THEN Infinity ELSE x
JSONParse(body) == [f \in Fields |-> ParseValue(body[f])]

\* JSON.stringify of one value: non-finite numbers are written as null.
StringifyValue(x) == IF x.t = "infinity" THEN Null ELSE x
StringifyObject(o) == [f \in Fields |-> StringifyValue(o[f])]

\* res.json(v) / res.send(v): the body the client receives.
ResJson(v) ==
    CASE v.kind = "object" -> ObjVal(StringifyObject(v.obj))
      [] v.kind = "scalar" -> ScalarVal(StringifyValue(v.sc))
      [] OTHER -> UndefinedVal

\* ------------------------------------------------------------ tables
\* const deviceData = {}; const commands = {};
\* own: the table's own properties; proto: <<>> while the prototype is
\* Object.prototype, <<o>> once a write to "__proto__" has made o the
\* prototype (o itself inherits from Object.prototype).
EmptyTable == [own |-> <<>>, proto |-> <<>>]

\* table[key]
GetProp(table, key) ==
    IF key \in DOMAIN table.own
    THEN ObjVal(table.own[key])
    ELSE IF table.proto # <<>> /\ key \in Fields /\ table.proto[1][key] # Undefined
    THEN ScalarVal(table.proto[1][key])
    ELSE IF key = "__proto__"
    THEN ObjVal(IF table.proto = <<>> THEN EmptyObject ELSE table.proto[1])
    ELSE UndefinedVal

\* table[key] = o
SetProp(table, key, o) ==
    IF key = "__proto__"
    THEN [table EXCEPT !.proto = <<o>>]
    ELSE [table EXCEPT !.own = (key :> o) @@ table.own]

\* ------------------------------------------------------------ requests
DEFAULT_DEVICE_ID == "VX0dFVvmu1QSpQdvj1p74iyfx9n1"
\* Ids a client may put in the path: the seed device, a fresh device, and three
\* ids that are also property names known to a plain object table.
DeviceIds == {DEFAULT_DEVICE_ID, "dev1", "__proto__", "timestamp", "buzzer"}

\* Coordinates are carried in units of 1e-4 degree.
Payload(lat, lon, rssi) ==
    [EmptyObject EXCEPT !.latitude = lat, !.longitude = lon, !.rssi = rssi]

\* JSON bodies a tracker may send.
Bodies ==
    { Payload(Num(146000), Num(1209000), Num(-80)),
      Payload(Num(10), Num(20), Null),
      Payload(Overflow, Num(1), Num(1)),
      Payload(Str("abc"), Num(1), Num(1)),
      Payload(Num(1), Null, Num(1)),
      Payload(Num(1), Num(1), Undefined) }

NoBody == EmptyObject
Idle == [method |-> "idle", table |-> "none", deviceId |-> "", body |-> NoBody, at |-> 0]
Request(m, tb, id, b, t) ==
    [method |-> m, table |-> tb, deviceId |-> id, body |-> b, at |-> t]

\* ------------------------------------------------------------- state
VARIABLES
    deviceData,  \* server.js:14
    commands,    \* server.js:18
    now,         \* the wall clock read by Date.now()
    conn,        \* per connection: the request in flight, or Idle
    arrived,     \* number of requests accepted so far
    last,        \* the most recent completed exchange: request and response
    accepted,    \* per device: the latest POST /api/data request answered 200
    issued,      \* per device: POST /api/command requests handled
    observed,    \* per device: GET /api/command responses with buzzer true
    epoch        \* per device: the command exchanges since the latest issuance

vars == <<deviceData, commands, now, conn, arrived, last, accepted, issued, observed, epoch>>

Response(st, b) == [status |-> st, body |-> b]
Message(text) == ObjVal([EmptyObject EXCEPT !.message = Str(text)])
Exchange(req, res) == [req |-> req, res |-> res]

\* ------------------------------------------------------------ handlers
\* A validator that also insists on a numeric rssi.
isValidGpsDataStrict(data) ==
    /\ TypeOf(data.latitude) = "number"
    /\ TypeOf(data.longitude) = "number"
    /\ TypeOf(data.rssi) = "number"

\* function isValidGpsData(data)
isValidGpsData(data) ==
    /\ TypeOf(data.latitude) = "number"
    /\ TypeOf(data.longitude) = "number"
    /\ TypeOf(data.rssi) # "undefined"

\* { ...data, timestamp: Date.now() }
TelemetryRecord(data, t) == [data EXCEPT !.timestamp = Num(t)]

\* app.post('/api/data/:deviceId'): the table afterwards and the response
PostDataStore(table, deviceId, body, t) ==
    LET data == JSONParse(body)
    IN IF ~isValidGpsData(data)
       THEN table
       ELSE SetProp(table, deviceId, TelemetryRecord(data, t))

PostDataResponse(body) ==
    IF ~isValidGpsData(JSONParse(body))
    THEN Response(400, Message("Invalid GPS data structure."))
    ELSE Response(200, Message("Data accepted."))

\* app.get('/api/data/:deviceId')
NoDataBody ==
    ObjVal([EmptyObject EXCEPT !.message = Str("No data found for device."),
                               !.latitude = Null, !.longitude = Null])

GetDataResponse(table, deviceId) ==
    LET latestData == GetProp(table, deviceId)
    IN IF ~TruthyVal(latestData)
       THEN Response(200, NoDataBody)
       ELSE Response(200, ResJson(latestData))

\* An issued command that carries no time of issuance.
ActiveCommandUnstamped(t) == [EmptyObject EXCEPT !.buzzer = Bool(TRUE)]

\* { buzzer: true, timestamp: Date.now() }
ActiveCommand(t) == [EmptyObject EXCEPT !.buzzer = Bool(TRUE), !.timestamp = Num(t)]

\* A default that reports the buzzer as active.
DefaultCommandActive == [EmptyObject EXCEPT !.buzzer = Bool(TRUE)]

\* { buzzer: false }
DefaultCommand == [EmptyObject EXCEPT !.buzzer = Bool(FALSE)]

\* A reset that re-stamps the record and leaves the flag set.
ClearedCommandStillActive(t) == ActiveCommand(t)

\* { buzzer: false, timestamp: Date.now() }
ClearedCommand(t) == [EmptyObject EXCEPT !.buzzer = Bool(FALSE), !.timestamp = Num(t)]

\* An issuance that toggles the flag: issuing while one is pending clears it.
PostCommandStoreToggle(table, deviceId, t) ==
    IF Prop(GetProp(table, deviceId), "buzzer") = Bool(TRUE)
    THEN SetProp(table, deviceId, ClearedCommand(t))
    ELSE SetProp(table, deviceId, ActiveCommand(t))

\* app.post('/api/command/:deviceId')
PostCommandStore(table, deviceId, t) == SetProp(table, deviceId, ActiveCommand(t))
PostCommandResponse == Response(200, Message("Command queued."))

\* app.get('/api/command/:deviceId')
\* const command = commands[deviceId] || { buzzer: false };
CurrentCommand(table, deviceId) ==
    LET stored == GetProp(table, deviceId)
    IN IF TruthyVal(stored) THEN stored ELSE ObjVal(DefaultCommand)

\* res.status(200).json(command);
GetCommandResponse(table, deviceId) ==
    Response(200, ResJson(CurrentCommand(table, deviceId)))

\* A poll that never resets the flag.
GetCommandStoreNoReset(table, deviceId, t) == table

\* if (command.buzzer) { commands[deviceId] = { buzzer: false, timestamp: Date.now() }; }
GetCommandStore(table, deviceId, t) ==
    IF Truthy(Prop(CurrentCommand(table, deviceId), "buzzer"))
    THEN SetProp(table, deviceId, ClearedCommand(t))
    ELSE table

\* ------------------------------------------------------------- actions
\* Startup: the seed record of DEFAULT_DEVICE_ID, stamped with Date.now().
SeedRecord ==
    [EmptyObject EXCEPT !.latitude = Num(145995), !.longitude = Num(1209842),
                        !.rssi = Num(-90), !.timestamp = Num(1)]

NoExchange == Exchange(Idle, Response(0, UndefinedVal))

\* The history of one device's command flag since its latest issuance:
\* posts counts the POSTs handled back to back (no GET between them) that
\* opened it, at is the time the latest of them was handled, polls lists what
\* each GET handled since then observed.
NewEpoch(n, t) == [posts |-> n, at |-> t, polls |-> <<>>]

Init ==
    /\ deviceData = SetProp(EmptyTable, DEFAULT_DEVICE_ID, SeedRecord)
    /\ commands = EmptyTable
    /\ now = 1
    /\ conn = [c \in Conns |-> Idle]
    /\ arrived = 0
    /\ last = NoExchange
    /\ accepted = [id \in DeviceIds |-> <<>>]
    /\ issued = [id \in DeviceIds |-> 0]
    /\ observed = [id \in DeviceIds |-> 0]
    /\ epoch = [id \in DeviceIds |-> NewEpoch(0, 0)]

\* Wall-clock time passes.
Tick ==
    /\ now < MaxTime
    /\ now' = now + 1
    /\ UNCHANGED <<deviceData, commands, conn, arrived, last, accepted, issued, observed, epoch>>

\* A client's request reaches the server on a free connection.
Arrive(c, req, max) ==
    /\ conn[c] = Idle
    /\ arrived < max
    /\ conn' = [conn EXCEPT ![c] = [req EXCEPT !.at = now]]
    /\ arrived' = arrived + 1
    /\ UNCHANGED <<deviceData, commands, now, last, accepted, issued, observed, epoch>>

\* Whether another request of the same kind for the same device is in flight.
Racing(c) ==
    \E d \in Conns \ {c} :
        /\ conn[d].method = conn[c].method
        /\ conn[d].table = conn[c].table
        /\ conn[d].deviceId = conn[c].deviceId

\* The buzzer flag a command response carries, as the polling tracker reads it.
BuzzerOf(res) == Prop(res.body, "buzzer") = Bool(TRUE)

Poll(res, racing) == [buzzer |-> BuzzerOf(res), racing |-> racing]

HandlePostData(c) ==
    /\ conn[c].method = "POST" /\ conn[c].table = "data"
    /\ deviceData' = PostDataStore(deviceData, conn[c].deviceId, conn[c].body, now)
    /\ last' = Exchange(conn[c], PostDataResponse(conn[c].body))
    /\ accepted' = IF PostDataResponse(conn[c].body).status = 200
                   THEN [accepted EXCEPT ![conn[c].deviceId] = <<conn[c]>>]
                   ELSE accepted
    /\ conn' = [conn EXCEPT ![c] = Idle]
    /\ UNCHANGED <<commands, now, arrived, issued, observed, epoch>>

HandleGetData(c) ==
    /\ conn[c].method = "GET" /\ conn[c].table = "data"
    /\ last' = Exchange(conn[c], GetDataResponse(deviceData, conn[c].deviceId))
    /\ conn' = [conn EXCEPT ![c] = Idle]
    /\ UNCHANGED <<deviceData, commands, now, arrived, accepted, issued, observed, epoch>>

HandlePostCommand(c) ==
    LET id == conn[c].deviceId
    IN /\ conn[c].method = "POST" /\ conn[c].table = "command"
       /\ commands' = PostCommandStore(commands, id, now)
       /\ last' = Exchange(conn[c], PostCommandResponse)
       /\ issued' = [issued EXCEPT ![id] = @ + 1]
       /\ epoch' = [epoch EXCEPT ![id] =
                        IF @.polls = <<>> THEN NewEpoch(@.posts + 1, now) ELSE NewEpoch(1, now)]
       /\ conn' = [conn EXCEPT ![c] = Idle]
       /\ UNCHANGED <<deviceData, now, arrived, accepted, observed>>

HandleGetCommand(c) ==
    LET id == conn[c].deviceId
        res == GetCommandResponse(commands, id)
    IN /\ conn[c].method = "GET" /\ conn[c].table = "command"
       /\ commands' = GetCommandStore(commands, id, now)
       /\ last' = Exchange(conn[c], res)
       /\ observed' = [observed EXCEPT ![id] = IF BuzzerOf(res) THEN @ + 1 ELSE @]
       /\ epoch' = [epoch EXCEPT ![id].polls = Append(@, Poll(res, Racing(c)))]
       /\ conn' = [conn EXCEPT ![c] = Idle]
       /\ UNCHANGED <<deviceData, now, arrived, accepted, issued>>

\* The requests of each kind, for every device id.
PostDataRequests == {Request("POST", "data", id, b, 0) : id \in DeviceIds, b \in Bodies}
GetDataRequests == {Request("GET", "data", id, NoBody, 0) : id \in DeviceIds}
PostCommandRequests == {Request("POST", "command", id, NoBody, 0) : id \in DeviceIds}
GetCommandRequests == {Request("GET", "command", id, NoBody, 0) : id \in DeviceIds}

Handle ==
    \E c \in Conns :
        \/ HandlePostData(c)
        \/ HandleGetData(c)
        \/ HandlePostCommand(c)
        \/ HandleGetCommand(c)

\* Telemetry traffic, one request in flight at a time: reports for the seed
\* device, a fresh device and "__proto__", reads for those and "timestamp",
\* and the buzzer of one tracker being used meanwhile.
TelemetryTraffic ==
    {r \in PostDataRequests : r.deviceId \notin {"timestamp", "buzzer"}}
        \cup {r \in GetDataRequests : r.deviceId # "buzzer"}
        \cup {r \in PostCommandRequests \cup GetCommandRequests : r.deviceId = "dev1"}

Next ==
    \/ Tick
    \/ \E r \in TelemetryTraffic : Arrive("c1", r, MaxReports)
    \/ Handle

Spec == Init /\ [][Next]_vars

\* Command traffic, one request in flight at a time: issuing and polling
\* for a fresh device, "__proto__" and "buzzer", with one tracker reporting
\* and being read meanwhile.
CommandTraffic ==
    {r \in PostCommandRequests \cup GetCommandRequests :
        r.deviceId \in {"dev1", "__proto__", "buzzer"}}
        \cup {r \in PostDataRequests :
                /\ r.deviceId = "dev1"
                /\ r.body = Payload(Num(146000), Num(1209000), Num(-80))}
        \cup {r \in GetDataRequests : r.deviceId = "dev1"}

NextCommand ==
    \/ Tick
    \/ \E r \in CommandTraffic : Arrive("c1", r, MaxPolls)
    \/ Handle

SpecCommand == Init /\ [][NextCommand]_vars

\* Concurrent pollers: command requests for two ids, two in flight at a time.
RaceTraffic ==
    {r \in PostCommandRequests \cup GetCommandRequests : r.deviceId \in {"dev1", "__proto__"}}

NextRace ==
    \/ Tick
    \/ \E c \in Conns, r \in RaceTraffic : Arrive(c, r, MaxPolls)
    \/ \E c \in Conns : HandlePostCommand(c)
    \/ \E c \in Conns : HandleGetCommand(c)

SpecRace == Init /\ [][NextRace]_vars

\* ------------------------------------------------------------- claims
\* Number of polls of a history that observed the buzzer active.
Trues(polls) == Cardinality({k \in 1..Len(polls) : polls[k].buzzer})

\* The buzzer flag of the record stored for a device.
StoredFlag(id) == Prop(GetProp(commands, id), "buzzer")

\* The request on connection c is handled in this step.
Handled(c) == conn[c] # Idle /\ conn'[c] = Idle

IsLast(m, tb) == last.req.method = m /\ last.req.table = tb

\* C1: for every device, once a command has been issued, the first GET
\* /api/command handled after it observes buzzer true and every later GET
\* (no POST for that device in between) observes false, whatever other
\* requests are handled in between.
C1_FirstPollTrueThenFalse ==
    \A id \in DeviceIds :
        epoch[id].posts >= 1 =>
            \A k \in 1..Len(epoch[id].polls) : epoch[id].polls[k].buzzer <=> (k = 1)

\* A command for dev1 was polled twice (true, then false), with a telemetry
\* report for dev1 sent after the issuance and handled before the last poll.
C1_Witness ==
    /\ IsLast("GET", "command") /\ last.req.deviceId = "dev1"
    /\ epoch["dev1"].posts = 1
    /\ Len(epoch["dev1"].polls) = 2
    /\ epoch["dev1"].polls[1].buzzer /\ ~epoch["dev1"].polls[2].buzzer
    /\ accepted["dev1"] # <<>>
    /\ accepted["dev1"][1].at > epoch["dev1"].at

\* C2: when a single command has been issued and a GET /api/command is
\* handled while another GET for the same device is in flight, that GET
\* observes true and exactly one of the polls of the issuance observes true.
C2_ConcurrentPollsOneTrue ==
    \A id \in DeviceIds :
        LET e == epoch[id]
        IN (e.posts = 1 /\ e.polls # <<>> /\ e.polls[1].racing) =>
               e.polls[1].buzzer /\ Trues(e.polls) = 1

\* Exactly three requests arrived: one POST and two GETs for dev1 that were in
\* flight together; the one handled first saw true, the other false.
C2_Witness ==
    /\ arrived = 3
    /\ epoch["dev1"].posts = 1
    /\ Len(epoch["dev1"].polls) = 2
    /\ epoch["dev1"].polls[1].racing
    /\ epoch["dev1"].polls[1].buzzer /\ ~epoch["dev1"].polls[2].buzzer

\* C3: after two or more POST /api/command for a device with no GET between
\* them the flag is simply pending; the GETs that follow observe true exactly
\* once, on the first of them, and the stored flag is false afterwards.
C3_IssuanceNotCounted ==
    \A id \in DeviceIds :
        LET e == epoch[id]
        IN e.posts >= 2 =>
               IF e.polls = <<>>
               THEN StoredFlag(id) = Bool(TRUE)
               ELSE /\ e.polls[1].buzzer
                    /\ Trues(e.polls) = 1
                    /\ StoredFlag(id) = Bool(FALSE)

\* Two POSTs back to back for dev1, then two GETs: true, false.
C3_Witness ==
    /\ epoch["dev1"].posts = 2
    /\ Len(epoch["dev1"].polls) = 2
    /\ epoch["dev1"].polls[1].buzzer /\ ~epoch["dev1"].polls[2].buzzer

\* The JSON body passes the shape check: latitude and longitude are JSON
\* numbers and rssi is present.
ShapeOk(body) ==
    /\ body.latitude.t \in {"number", "overflow"}
    /\ body.longitude.t \in {"number", "overflow"}
    /\ body.rssi.t # "undefined"

\* C4: a GET /api/data for a device with an accepted report returns the
\* latitude, longitude and rssi of the latest accepted POST and a timestamp
\* no earlier than the time that POST was sent.
C4_ReadReturnsLatestReport ==
    (IsLast("GET", "data") /\ accepted[last.req.deviceId] # <<>>) =>
        LET report == accepted[last.req.deviceId][1]
            body == last.res.body
        IN /\ last.res.status = 200
           /\ Prop(body, "latitude") = report.body.latitude
           /\ Prop(body, "longitude") = report.body.longitude
           /\ Prop(body, "rssi") = report.body.rssi
           /\ Prop(body, "timestamp").t = "number"
           /\ Prop(body, "timestamp").n >= report.at

\* C5: a GET /api/data for a device other than the seed device that never had
\* a report accepted is answered 200 with latitude null and longitude null.
C5_UnknownDevicePlaceholder ==
    (/\ IsLast("GET", "data")
     /\ accepted[last.req.deviceId] = <<>>
     /\ last.req.deviceId # DEFAULT_DEVICE_ID) =>
        /\ last.res.status = 200
        /\ Prop(last.res.body, "latitude") = Null
        /\ Prop(last.res.body, "longitude") = Null

\* C6: a POST /api/data is answered 400 exactly when its body fails the shape
\* check and 200 otherwise, and a request answered 400 changes neither table.
C6_RejectExactlyBadShape ==
    [][\A c \in Conns :
          (Handled(c) /\ conn[c].method = "POST" /\ conn[c].table = "data") =>
              /\ last'.req = conn[c]
              /\ last'.res.status = (IF ShapeOk(conn[c].body) THEN 200 ELSE 400)
              /\ (last'.res.status = 400 =>
                     deviceData' = deviceData /\ commands' = commands)]_vars

\* A report was rejected while both tables held records written by requests.
C6_Witness ==
    /\ IsLast("POST", "data")
    /\ last.res.status = 400
    /\ commands # EmptyTable
    /\ \E id \in DeviceIds : accepted[id] # <<>>

\* C7: a GET /api/command for a device with no command record, or whose
\* stored flag is false, is answered 200 with buzzer false and changes
\* nothing in either table.
C7_DefaultReadIsPure ==
    [][\A c \in Conns :
          (/\ Handled(c) /\ conn[c].method = "GET" /\ conn[c].table = "command"
           /\ StoredFlag(conn[c].deviceId) # Bool(TRUE)) =>
              /\ last'.res.status = 200
              /\ Prop(last'.res.body, "buzzer") = Bool(FALSE)
              /\ commands' = commands
              /\ deviceData' = deviceData]_vars

\* C8: a GET /api/command that observes true carries exactly the issued
\* record (flag true, timestamp of the issuance), and after any completed GET
\* /api/command the flag stored for that device is not set.
C8_ObservedThenCleared ==
    IsLast("GET", "command") =>
        /\ (BuzzerOf(last.res) =>
               last.res.body =
                   ObjVal([EmptyObject EXCEPT
                              !.buzzer = Bool(TRUE),
                              !.timestamp = Num(epoch[last.req.deviceId].at)]))
        /\ StoredFlag(last.req.deviceId) # Bool(TRUE)

\* A poll has just observed true, later than the command was issued.
C8_Witness ==
    /\ IsLast("GET", "command")
    /\ BuzzerOf(last.res)
    /\ now > epoch[last.req.deviceId].at
    /\ StoredFlag(last.req.deviceId) = Bool(FALSE)

\* C9: for every device, the GET /api/command responses that carried buzzer
\* true never outnumber the POST /api/command requests handled for it.
C9_AtMostOncePerIssuance ==
    \A id \in DeviceIds : observed[id] <= issued[id]

\* Two issuances for dev1, each delivered once.
C9_Witness == issued["dev1"] = 2 /\ observed["dev1"] = 2

\* C10: a request for device A changes nothing in the other table, and
\* changes neither the record of, nor the answer to a GET for, any other
\* device B.
C10_OnlyOwnRecordChanges ==
    [][\A c \in Conns :
          Handled(c) =>
              /\ (conn[c].table = "data" => commands' = commands)
              /\ (conn[c].table = "command" => deviceData' = deviceData)
              /\ \A b \in DeviceIds \ {conn[c].deviceId} :
                    /\ GetProp(deviceData', b) = GetProp(deviceData, b)
                    /\ GetProp(commands', b) = GetProp(commands, b)
                    /\ GetDataResponse(deviceData', b) = GetDataResponse(deviceData, b)
                    /\ GetCommandResponse(commands', b) = GetCommandResponse(commands, b)]_vars

====
